---- MODULE Spec2Model ----
(***************************************************************************)
(* Scheduling conflict solver (scheduling.py): the per-subject Allocation  *)
(* enumerator, the two-phase schedule builder, the recursive search        *)
(* percolate with its memo of visited permutations, and the list of saved  *)
(* schedules with its duplicate counter.                                   *)
(*                                                                         *)
(* Instants (datetime values) are counted in grid cells since 00:00 of day *)
(* 0: one cell is one step of the inner loop of empty_schedule.  The       *)
(* recursion of percolate is an explicit stack of frames.                  *)
(***************************************************************************)
EXTENDS Integers, Sequences, FiniteSets, TLC

\* ---- configuration of the grid (scheduling.py:51-53, 116, 513) ----
StartOfDay == 8
EndOfDay == 12
NoOfDays == 5
Day0 == 2
CellsPerHour == 2

\* ---- bounds of the input family ----
MaxSubjects == 3
MaxSlotsUE == 4
MaxSlotsVO == 2
SlotWidth == 2
MaxCombinations == 36

TicksPerDay == 24 * CellsPerHour
CellsPerDay == (EndOfDay - StartOfDay) * CellsPerHour

\* datetime(year, month, day, hh, mm), mm counted in cells
datetime(day, hh, c) == day * TicksPerDay + hh * CellsPerHour + c

\* ---- Schedule: the grid ----
empty_schedule ==
    [t \in {datetime(day, hh, c) : day \in Day0..(Day0 + NoOfDays - 1),
                                   hh \in StartOfDay..(EndOfDay - 1),
                                   c \in 0..(CellsPerHour - 1)} |-> ""]

RECURSIVE sorted(_)
sorted(S) ==
    IF S = {} THEN << >>
    ELSE LET m == CHOOSE x \in S : \A y \in S : x <= y
         IN  <<m>> \o sorted(S \ {m})

blank_schedule == empty_schedule
dt_by_index == sorted(DOMAIN blank_schedule)

\* list.index, 0-based as in the source
list_index(seq, x) == (CHOOSE i \in 1..Len(seq) : seq[i] = x) - 1

\* the cells range(t1, t2) of a slot, as instants
slot_cells(selected_time) ==
    LET t1 == list_index(dt_by_index, selected_time[1])
        t2 == list_index(dt_by_index, selected_time[2] - 1) + 1
    IN  {dt_by_index[i + 1] : i \in t1..(t2 - 1)}

\* is_free looking at the first cell of the slot only
is_free_first(schedule, selected_time) == schedule[selected_time[1]] = ""

is_free(schedule, selected_time) ==
    \A t \in slot_cells(selected_time) : schedule[t] = ""

\* fill writing the first cell of the slot only
fill_first(schedule, name, selected_time) ==
    [t \in DOMAIN schedule |->
        IF t = selected_time[1] THEN name ELSE schedule[t]]

fill(schedule, name, selected_time) ==
    LET cells == slot_cells(selected_time)
    IN  [t \in DOMAIN schedule |-> IF t \in cells THEN name ELSE schedule[t]]

\* ---- Subject ----
Range(seq) == {seq[i] : i \in DOMAIN seq}

mark_allocated(allocated, selected_time) == allocated \cup {selected_time}

\* a reset that keeps the allocated times
reset_keep(allocated) == allocated

\* Subject.reset: allocated_times = set()
reset(allocated) == {}

\* is_complete with the UE test applied to every type
is_complete_any(subject, allocated) == Cardinality(allocated) >= 1

\* is_complete satisfied by any set of the subject's own times
is_complete_subset(subject, allocated) ==
    IF subject.type = "VO"
    THEN allocated \subseteq Range(subject.times)
    ELSE Cardinality(allocated) >= 1

is_complete(subject, allocated) ==
    IF subject.type = "VO"
    THEN allocated = Range(subject.times)
    ELSE Cardinality(allocated) >= 1

\* is_partially_complete with the comparison off by one
is_partially_complete_always(allocated) == Cardinality(allocated) >= 0

is_partially_complete(allocated) == Cardinality(allocated) >= 1

\* ---- Allocation ----
\* itertools.product([True, False], repeat=n), in its order
RECURSIVE product(_)
product(n) ==
    IF n = 0 THEN << << >> >>
    ELSE LET rest == product(n - 1)
             with(b) == [k \in 1..Len(rest) |-> <<b>> \o rest[k]]
         IN  with(TRUE) \o with(FALSE)

any(booltup) == \E i \in DOMAIN booltup : booltup[i]
sum(booltup) == Cardinality({i \in DOMAIN booltup : booltup[i]})
exactly_one(booltup) == sum(booltup) = 1

\* the array with the VO filter left out
allocation_array_unfiltered(subject) ==
    LET tmp == product(Len(subject.times))
    IN  IF subject.type = "VO" THEN tmp ELSE SelectSeq(tmp, exactly_one)

allocation_array(subject) ==
    LET tmp == product(Len(subject.times))
    IN  IF subject.type = "VO"
        THEN SelectSeq(tmp, any)
        ELSE SelectSeq(tmp, exactly_one)

Allocation(subject) ==
    [index |-> 0, has_reached_end |-> FALSE, array |-> allocation_array(subject)]

get_array(a) == a.array[a.index + 1]

advance(a) ==
    IF a.index < Len(a.array) - 1
    THEN [a EXCEPT !.index = @ + 1]
    ELSE [a EXCEPT !.has_reached_end = TRUE]

reverse(a) ==
    IF a.index > 0 THEN [a EXCEPT !.index = @ - 1] ELSE a

\* reset_end_status leaving the flag as it is
reset_end_status_noop(a) == a

reset_end_status(a) == [a EXCEPT !.has_reached_end = FALSE]

\* ---- Schedule.create_schedule, phase by phase ----
\* the first loop without the test of the enabling bit
RECURSIVE phase1_all_slots(_, _, _, _, _, _)
phase1_all_slots(subjs, enables, i, j, table, allocated) ==
    IF i > Len(subjs) THEN [table |-> table, allocated |-> allocated]
    ELSE IF j > Len(subjs[i].times)
         THEN phase1_all_slots(subjs, enables, i + 1, 1, table, allocated)
         ELSE LET selected_time == subjs[i].times[j]
              IN  IF is_free(table, selected_time)
                  THEN phase1_all_slots(subjs, enables, i, j + 1,
                              fill(table, subjs[i].name, selected_time),
                              [allocated EXCEPT
                                  ![i] = mark_allocated(@, selected_time)])
                  ELSE phase1_all_slots(subjs, enables, i, j + 1, table,
                                        allocated)

\* first loop: the slots enabled by the allocation, in subject and slot order
RECURSIVE phase1(_, _, _, _, _, _)
phase1(subjs, enables, i, j, table, allocated) ==
    IF i > Len(subjs) THEN [table |-> table, allocated |-> allocated]
    ELSE IF j > Len(subjs[i].times)
         THEN phase1(subjs, enables, i + 1, 1, table, allocated)
         ELSE LET selected_time == subjs[i].times[j]
              IN  IF enables[i][j] /\ is_free(table, selected_time)
                  THEN phase1(subjs, enables, i, j + 1,
                              fill(table, subjs[i].name, selected_time),
                              [allocated EXCEPT
                                  ![i] = mark_allocated(@, selected_time)])
                  ELSE phase1(subjs, enables, i, j + 1, table, allocated)

\* the second loop without the test that the slot is free
RECURSIVE phase2_overwrite(_, _, _, _, _)
phase2_overwrite(subjs, i, j, table, allocated) ==
    IF i > Len(subjs) THEN [table |-> table, allocated |-> allocated]
    ELSE IF subjs[i].type # "VO" \/ j > Len(subjs[i].times)
         THEN phase2_overwrite(subjs, i + 1, 1, table, allocated)
         ELSE LET selected_time == subjs[i].times[j]
              IN  IF selected_time \notin allocated[i]
                  THEN phase2_overwrite(subjs, i, j + 1,
                              fill(table, subjs[i].name, selected_time),
                              [allocated EXCEPT
                                  ![i] = mark_allocated(@, selected_time)])
                  ELSE phase2_overwrite(subjs, i, j + 1, table, allocated)

\* the second loop without the test of the subject's type
RECURSIVE phase2_any_type(_, _, _, _, _)
phase2_any_type(subjs, i, j, table, allocated) ==
    IF i > Len(subjs) THEN [table |-> table, allocated |-> allocated]
    ELSE IF j > Len(subjs[i].times)
         THEN phase2_any_type(subjs, i + 1, 1, table, allocated)
         ELSE LET selected_time == subjs[i].times[j]
              IN  IF selected_time \notin allocated[i]
                     /\ is_free(table, selected_time)
                  THEN phase2_any_type(subjs, i, j + 1,
                              fill(table, subjs[i].name, selected_time),
                              [allocated EXCEPT
                                  ![i] = mark_allocated(@, selected_time)])
                  ELSE phase2_any_type(subjs, i, j + 1, table, allocated)

\* the second loop leaving each subject after its first slot
RECURSIVE phase2_first_slot(_, _, _, _, _)
phase2_first_slot(subjs, i, j, table, allocated) ==
    IF i > Len(subjs) THEN [table |-> table, allocated |-> allocated]
    ELSE IF subjs[i].type # "VO" \/ j > 1
         THEN phase2_first_slot(subjs, i + 1, 1, table, allocated)
         ELSE LET selected_time == subjs[i].times[j]
              IN  IF selected_time \notin allocated[i]
                     /\ is_free(table, selected_time)
                  THEN phase2_first_slot(subjs, i, j + 1,
                              fill(table, subjs[i].name, selected_time),
                              [allocated EXCEPT
                                  ![i] = mark_allocated(@, selected_time)])
                  ELSE phase2_first_slot(subjs, i, j + 1, table, allocated)

\* second loop: every remaining free slot of the VO subjects
RECURSIVE phase2(_, _, _, _, _)
phase2(subjs, i, j, table, allocated) ==
    IF i > Len(subjs) THEN [table |-> table, allocated |-> allocated]
    ELSE IF subjs[i].type # "VO" \/ j > Len(subjs[i].times)
         THEN phase2(subjs, i + 1, 1, table, allocated)
         ELSE LET selected_time == subjs[i].times[j]
              IN  IF selected_time \notin allocated[i]
                     /\ is_free(table, selected_time)
                  THEN phase2(subjs, i, j + 1,
                              fill(table, subjs[i].name, selected_time),
                              [allocated EXCEPT
                                  ![i] = mark_allocated(@, selected_time)])
                  ELSE phase2(subjs, i, j + 1, table, allocated)

\* third loop: the two flags
RECURSIVE classify(_, _, _, _)
classify(subjs, allocated, i, flags) ==
    IF i > Len(subjs) THEN flags
    ELSE IF ~ is_partially_complete(allocated[i])
         THEN classify(subjs, allocated, i + 1, [flags EXCEPT !.failed = TRUE])
         ELSE IF ~ is_complete(subjs[i], allocated[i])
              THEN classify(subjs, allocated, i + 1,
                            [flags EXCEPT !.is_incomplete = TRUE])
              ELSE classify(subjs, allocated, i + 1, flags)

no_flags == [is_incomplete |-> FALSE, failed |-> FALSE]

\* the whole build, from the scratch sets as they are found
create_schedule(subjs, enables, blank, allocated) ==
    LET p1 == phase1(subjs, enables, 1, 1, blank, allocated)
        p2 == phase2(subjs, 1, 1, p1.table, p1.allocated)
        fl == classify(subjs, p2.allocated, 1, no_flags)
    IN  [table |-> p2.table, allocated |-> p2.allocated,
         is_incomplete |-> fl.is_incomplete, failed |-> fl.failed]

\* Schedule.__eq__
schedule_eq(a, b) == a.table = b.table

\* ---- the input family: subject files as the loader reads them ----
SubjectNames == <<"A", "B", "C", "D", "E", "F">>

Kinds == ({"UE"} \X (1..MaxSlotsUE)) \cup ({"VO"} \X (1..MaxSlotsVO))

\* the subjects are offered either all at the same time of day or each one
\* SlotWidth - 1 cells later than the one before it
Shifts == {0, SlotWidth - 1}

\* subject i offers the same time of day on n consecutive weekdays
subject_times(i, n, shift) ==
    LET pos == ((i - 1) * shift) % (CellsPerDay - SlotWidth + 1)
        beg(k) == datetime(Day0 + k - 1, StartOfDay, 0) + pos
    IN  [k \in 1..n |-> <<beg(k), beg(k) + SlotWidth>>]

Subject(i, kind, shift) ==
    [name |-> SubjectNames[i], type |-> kind[1],
     times |-> subject_times(i, kind[2], shift)]

\* the number of points of the cartesian product of the first n enumerators
RECURSIVE combinations(_, _)
combinations(allocs, n) ==
    IF n = 0 THEN 1 ELSE Len(allocs[n].array) * combinations(allocs, n - 1)

VARIABLES subjects, alloc_by_subj, allocated_times, permutations,
          saved_schedules, duplicates, schedule, stack, incompletes, main_pc

vars == <<subjects, alloc_by_subj, allocated_times, permutations,
          saved_schedules, duplicates, schedule, stack, incompletes, main_pc>>

N == Len(subjects)
top == stack[Len(stack)]
pop == SubSeq(stack, 1, Len(stack) - 1)
goto(label) == [stack EXCEPT ![Len(stack)].pc = label]
at(label) == stack # << >> /\ top.pc = label

\* a frame of percolate: where it stands, the loop variable subj and the
\* local perm_check of line 282 (empty until it is assigned)
frame_on_entry == [pc |-> "enter", subj |-> 0, perm_check |-> << >>]

\* the module-level state once the subjects are loaded, and the first call
Loaded ==
    /\ alloc_by_subj = [i \in 1..N |-> Allocation(subjects[i])]
    /\ allocated_times = [i \in 1..N |-> {}]
    /\ permutations = {}
    /\ saved_schedules = << >>
    /\ duplicates = 0
    /\ schedule = [table |-> blank_schedule, is_incomplete |-> FALSE,
                   failed |-> FALSE]
    /\ stack = << frame_on_entry >>
    /\ incompletes = 0
    /\ main_pc = "search"

Init ==
    /\ \E n \in 1..MaxSubjects, shift \in Shifts :
         \E kinds \in [1..n -> Kinds] :
            subjects = [i \in 1..n |-> Subject(i, kinds[i], shift)]
    /\ Loaded
    /\ combinations(alloc_by_subj, N) <= MaxCombinations

\* ---- percolate ----
perm_check == [i \in 1..N |-> get_array(alloc_by_subj[i])]

end_reached == {i \in 1..N : alloc_by_subj[i].has_reached_end}

first_of(S) == CHOOSE i \in S : \A k \in S : i <= k

\* lines 276-279: an enumerator has signalled its end
PercolateEndOfRange ==
    /\ at("enter")
    /\ end_reached # {}
    /\ alloc_by_subj' = [alloc_by_subj EXCEPT
                            ![first_of(end_reached)] = reset_end_status(@)]
    /\ stack' = pop
    /\ UNCHANGED <<subjects, allocated_times, permutations, saved_schedules,
                   duplicates, schedule, incompletes, main_pc>>

\* lines 282-285: the permutation was seen before
PercolateSeen ==
    /\ at("enter")
    /\ end_reached = {}
    /\ perm_check \in permutations
    /\ stack' = pop
    /\ UNCHANGED <<subjects, alloc_by_subj, allocated_times, permutations,
                   saved_schedules, duplicates, schedule, incompletes, main_pc>>

\* lines 286-290 and 72-73: a new permutation, a new Schedule on a copy of
\* the blank grid
PercolateVisit ==
    /\ at("enter")
    /\ end_reached = {}
    /\ perm_check \notin permutations
    /\ permutations' = permutations \cup {perm_check}
    /\ schedule' = [table |-> blank_schedule, is_incomplete |-> FALSE,
                    failed |-> FALSE]
    /\ stack' = [stack EXCEPT ![Len(stack)] =
                    [pc |-> "phase1", subj |-> 0, perm_check |-> perm_check]]
    /\ UNCHANGED <<subjects, alloc_by_subj, allocated_times, saved_schedules,
                   duplicates, incompletes, main_pc>>

\* lines 79-85
SchedulePhase1 ==
    /\ at("phase1")
    /\ LET r == phase1(subjects, perm_check, 1, 1, schedule.table,
                       allocated_times)
       IN  /\ schedule' = [schedule EXCEPT !.table = r.table]
           /\ allocated_times' = r.allocated
    /\ stack' = goto("phase2")
    /\ UNCHANGED <<subjects, alloc_by_subj, permutations, saved_schedules,
                   duplicates, incompletes, main_pc>>

\* lines 87-95
SchedulePhase2 ==
    /\ at("phase2")
    /\ LET r == phase2(subjects, 1, 1, schedule.table, allocated_times)
       IN  /\ schedule' = [schedule EXCEPT !.table = r.table]
           /\ allocated_times' = r.allocated
    /\ stack' = goto("classify")
    /\ UNCHANGED <<subjects, alloc_by_subj, permutations, saved_schedules,
                   duplicates, incompletes, main_pc>>

\* lines 97-105: the flags, and every subject reset
ScheduleClassify ==
    /\ at("classify")
    /\ LET fl == classify(subjects, allocated_times, 1, no_flags)
       IN  schedule' = [schedule EXCEPT !.is_incomplete = fl.is_incomplete,
                                        !.failed = fl.failed]
    /\ allocated_times' = [i \in 1..N |-> reset(allocated_times[i])]
    /\ stack' = goto("sink")
    /\ UNCHANGED <<subjects, alloc_by_subj, permutations, saved_schedules,
                   duplicates, incompletes, main_pc>>

\* the duplicate test against the most recent saved schedule only
is_duplicate_last(sched, saved) ==
    saved # << >> /\ schedule_eq(sched, saved[Len(saved)])

\* the duplicate test against the oldest saved schedule only
is_duplicate_first(sched, saved) ==
    saved # << >> /\ schedule_eq(sched, saved[1])

\* line 294: any([schedule == element for element in saved_schedules])
is_duplicate(sched, saved) ==
    \E i \in 1..Len(saved) : schedule_eq(sched, saved[i])

\* accept with the version left 0-based
accept_zero_based(sched, saved) ==
    Append(saved, [table |-> sched.table, is_incomplete |-> sched.is_incomplete,
                   failed |-> sched.failed, version |-> Len(saved)])

\* lines 302-303: append, then version = saved_schedules.index(schedule) + 1
accept(sched, saved) ==
    LET entry(v) == [table |-> sched.table, is_incomplete |-> sched.is_incomplete,
                     failed |-> sched.failed, version |-> v]
        appended == Append(saved, entry(0))
        found == CHOOSE i \in 1..Len(appended) :
                    /\ schedule_eq(sched, appended[i])
                    /\ \A k \in 1..(i - 1) : ~ schedule_eq(sched, appended[k])
    IN  Append(saved, entry((found - 1) + 1))

\* lines 292-310
PercolateSink ==
    /\ at("sink")
    /\ IF schedule.failed
       THEN UNCHANGED <<saved_schedules, duplicates>>
       ELSE IF is_duplicate(schedule, saved_schedules)
            THEN /\ duplicates' = duplicates + 1
                 /\ UNCHANGED saved_schedules
            ELSE /\ saved_schedules' = accept(schedule, saved_schedules)
                 /\ UNCHANGED duplicates
    /\ stack' = [stack EXCEPT ![Len(stack)].pc = "advance",
                               ![Len(stack)].subj = 1]
    /\ UNCHANGED <<subjects, alloc_by_subj, allocated_times, permutations,
                   schedule, incompletes, main_pc>>

\* a loop that never leaves its current subject
next_subject_stuck(frame) == [frame EXCEPT !.pc = "advance"]

\* the for loop of line 312 moves on to the next subject
next_subject(frame) == [frame EXCEPT !.pc = "advance", !.subj = @ + 1]

\* lines 313-314: advance the subject's enumerator and recurse
PercolateAdvance ==
    /\ at("advance")
    /\ top.subj <= N
    /\ alloc_by_subj' = [alloc_by_subj EXCEPT ![top.subj] = advance(@)]
    /\ stack' = Append(goto("reverse"), frame_on_entry)
    /\ UNCHANGED <<subjects, allocated_times, permutations, saved_schedules,
                   duplicates, schedule, incompletes, main_pc>>

\* line 315: back from the recursive call
PercolateReverse ==
    /\ at("reverse")
    /\ alloc_by_subj' = [alloc_by_subj EXCEPT ![top.subj] = reverse(@)]
    /\ stack' = [stack EXCEPT ![Len(stack)] = next_subject(@)]
    /\ UNCHANGED <<subjects, allocated_times, permutations, saved_schedules,
                   duplicates, schedule, incompletes, main_pc>>

\* the loop of line 312 is over: percolate returns
PercolateReturn ==
    /\ at("advance")
    /\ top.subj > N
    /\ stack' = pop
    /\ UNCHANGED <<subjects, alloc_by_subj, allocated_times, permutations,
                   saved_schedules, duplicates, schedule, incompletes, main_pc>>

\* lines 546-566: the thread has joined, the totals are counted
Summary ==
    /\ main_pc = "search"
    /\ stack = << >>
    /\ incompletes' = Cardinality({i \in 1..Len(saved_schedules) :
                                      saved_schedules[i].is_incomplete})
    /\ main_pc' = "done"
    /\ UNCHANGED <<subjects, alloc_by_subj, allocated_times, permutations,
                   saved_schedules, duplicates, schedule, stack>>

Next ==
    \/ PercolateEndOfRange
    \/ PercolateSeen
    \/ PercolateVisit
    \/ SchedulePhase1
    \/ SchedulePhase2
    \/ ScheduleClassify
    \/ PercolateSink
    \/ PercolateAdvance
    \/ PercolateReverse
    \/ PercolateReturn
    \/ Summary

Spec == Init /\ [][Next]_vars

\* ---- the two-subject example ----
\* half an hour, in cells
HalfHour == CellsPerHour \div 2

\* subject file A: UE, Monday 08:00-09:30 and Tuesday 10:00-11:30
ExampleA ==
    [name |-> "A", type |-> "UE",
     times |-> << <<datetime(Day0, 8, 0), datetime(Day0, 9, HalfHour)>>,
                  <<datetime(Day0 + 1, 10, 0), datetime(Day0 + 1, 11, HalfHour)>> >>]

\* subject file B: VO, Monday 08:00-09:00 and Wednesday 09:00-10:00
ExampleB ==
    [name |-> "B", type |-> "VO",
     times |-> << <<datetime(Day0, 8, 0), datetime(Day0, 9, 0)>>,
                  <<datetime(Day0 + 2, 9, 0), datetime(Day0 + 2, 10, 0)>> >>]

\* glob.glob (line 259) returns the two files in an order of its own
InitExample ==
    /\ subjects \in {<<ExampleA, ExampleB>>, <<ExampleB, ExampleA>>}
    /\ Loaded

SpecExample == InitExample /\ [][Next]_vars

\* ---- inputs without conflicts ----
\* the subject files offer each subject SlotWidth cells later than the one
\* before it: no slot of a subject meets a slot of another subject
InitDisjoint ==
    /\ \E n \in 1..MaxSubjects :
         \E kinds \in [1..n -> Kinds] :
            subjects = [i \in 1..n |-> Subject(i, kinds[i], SlotWidth)]
    /\ Loaded
    /\ combinations(alloc_by_subj, N) <= MaxCombinations

SpecDisjoint == InitDisjoint /\ [][Next]_vars

\* percolate runs alone in its thread and the main thread waits for it: a
\* step that can be taken is taken (FairSpec, below)

\* the inputs of the fair specification: the subjects are listed with the
\* largest number of choices first and are all offered at the same time of
\* day (the walk does not read the grid)
InitFair ==
    /\ Init
    /\ \A i \in 1..(N - 1) :
          /\ Len(alloc_by_subj[i].array) >= Len(alloc_by_subj[i + 1].array)
          /\ subjects[i].times[1] = subjects[i + 1].times[1]

FairSpec == InitFair /\ [][Next]_vars /\ WF_vars(Next)

TypeOK ==
    /\ main_pc \in {"search", "done"}
    /\ duplicates \in Nat
    /\ \A i \in 1..N : alloc_by_subj[i].index \in 0..(Len(alloc_by_subj[i].array) - 1)

\* ---- vocabulary of the properties ----
\* every point of the cartesian product of the subjects' choices
AllSignatures ==
    {sig \in [1..N -> UNION {Range(alloc_by_subj[i].array) : i \in 1..N}] :
        \A i \in 1..N : sig[i] \in Range(alloc_by_subj[i].array)}

\* the schedule built for a signature, from empty scratch sets
build(sig) ==
    create_schedule(subjects, sig, blank_schedule, [i \in 1..N |-> {}])

SavedGrids == {saved_schedules[i].table : i \in 1..Len(saved_schedules)}

\* an instant lies in the half-open range of a slot
Inside(t, slot) == slot[1] <= t /\ t < slot[2]

Overlap(a, b) == a[1] < b[2] /\ b[1] < a[2]

FullySatisfied(i) ==
    IF subjects[i].type = "UE"
    THEN allocated_times[i] # {}
    ELSE \A k \in 1..Len(subjects[i].times) :
            subjects[i].times[k] \in allocated_times[i]

RECURSIVE pow2(_)
pow2(n) == IF n = 0 THEN 1 ELSE 2 * pow2(n - 1)

RECURSIVE choice_product(_)
choice_product(i) ==
    IF i = 0 THEN 1
    ELSE (IF subjects[i].type = "UE"
          THEN Len(subjects[i].times)
          ELSE pow2(Len(subjects[i].times)) - 1) * choice_product(i - 1)

\* C1: when the search has finished, the saved grids are exactly the
\* non-failed grids of the whole cartesian product, each stored once.
C1_SavedAreAllValidGrids ==
    main_pc = "done" =>
        /\ SavedGrids = {build(sig).table :
                            sig \in {s \in AllSignatures : ~ build(s).failed}}
        /\ \A i, j \in 1..Len(saved_schedules) :
              saved_schedules[i].table = saved_schedules[j].table => i = j

\* C2: when the search has finished, a schedule was built for every point
\* of the cartesian product: the memo holds the product of the choice counts
\* many signatures, all of them.
C2_VisitsWholeProduct ==
    main_pc = "done" =>
        /\ permutations = AllSignatures
        /\ Cardinality(permutations) = choice_product(N)

\* C3: the walk terminates: the top-level call returns and the totals are
\* reported.
C3_Terminates == <>(main_pc = "done")

C3_Witness ==
    /\ main_pc = "done"
    /\ Cardinality(permutations) >= 6
    /\ N >= 2

\* C4: no saved schedule is failed, and no two saved schedules have equal
\* grids.
C4_SavedValidAndDistinct ==
    /\ \A i \in 1..Len(saved_schedules) : ~ saved_schedules[i].failed
    /\ \A i, j \in 1..Len(saved_schedules) :
          saved_schedules[i].table = saved_schedules[j].table => i = j

C4_Witness ==
    /\ Len(saved_schedules) >= 2
    /\ duplicates >= 1
    /\ at("sink")
    /\ schedule.failed

\* C5: when the second phase has ended, allocated slots of different
\* subjects do not overlap and a cell holds a subject's name exactly when it
\* lies inside a slot allocated to that subject, and is empty otherwise.
C5_GridAgreesWithAllocation ==
    at("classify") =>
        /\ \A i, j \in 1..N : i # j =>
              \A a \in allocated_times[i], b \in allocated_times[j] :
                 ~ Overlap(a, b)
        /\ \A t \in DOMAIN schedule.table :
              /\ \A i \in 1..N :
                    schedule.table[t] = subjects[i].name
                       <=> \E a \in allocated_times[i] : Inside(t, a)
              /\ (\A i \in 1..N : \A a \in allocated_times[i] : ~ Inside(t, a))
                    => schedule.table[t] = ""

C5_Witness ==
    /\ at("classify")
    /\ \E i, j \in 1..N :
          /\ i # j
          /\ allocated_times[i] # {}
          /\ allocated_times[j] # {}
          /\ \E k \in 1..Len(subjects[j].times) :
                /\ subjects[j].times[k] \notin allocated_times[j]
                /\ \E a \in allocated_times[i] : Overlap(a, subjects[j].times[k])

\* C6: an enumerator holds n vectors with exactly one bit set for a UE
\* subject, 2^n - 1 vectors with at least one bit set for a VO subject, and
\* no vector twice.
C6_AllocationArray ==
    \A i \in 1..N :
        LET arr == alloc_by_subj[i].array
            n == Len(subjects[i].times)
        IN  /\ \A k \in 1..Len(arr) : Len(arr[k]) = n
            /\ \A k, l \in 1..Len(arr) : arr[k] = arr[l] => k = l
            /\ IF subjects[i].type = "UE"
               THEN /\ Len(arr) = n
                    /\ \A k \in 1..Len(arr) :
                          Cardinality({b \in 1..n : arr[k][b]}) = 1
               ELSE /\ Len(arr) = pow2(n) - 1
                    /\ \A k \in 1..Len(arr) : \E b \in 1..n : arr[k][b]

C6_Witness ==
    \E i, j \in 1..N :
        /\ subjects[i].type = "UE" /\ Len(subjects[i].times) >= 3
        /\ subjects[j].type = "VO" /\ Len(subjects[j].times) >= 2
        /\ alloc_by_subj[i].index = Len(alloc_by_subj[i].array) - 1
        /\ alloc_by_subj[j].index = Len(alloc_by_subj[j].array) - 1

\* C7: the build sets failed exactly when some subject ended the second
\* phase with no allocated slot.
C7_FailedIffSomeSubjectEmpty ==
    [][at("classify") =>
          (schedule'.failed <=> \E i \in 1..N : allocated_times[i] = {})]_vars

C7_Witness ==
    /\ at("sink")
    /\ schedule.failed
    /\ ~ schedule.is_incomplete

\* C8 as stated: incomplete is set exactly when the schedule is not failed
\* and some subject is not fully satisfied.
C8_IncompleteIffNotFailedAndUnsatisfied ==
    [][at("classify") =>
          (schedule'.is_incomplete <=>
              (~ schedule'.failed /\ \E i \in 1..N : ~ FullySatisfied(i)))]_vars

\* C8 amended: incomplete is set exactly when some subject holds at least
\* one slot but is not fully satisfied; on a schedule that is not failed
\* this is: some subject is not fully satisfied.
C8_IncompleteIffSomeSubjectPartial ==
    [][at("classify") =>
          /\ schedule'.is_incomplete <=>
                \E i \in 1..N : allocated_times[i] # {} /\ ~ FullySatisfied(i)
          /\ ~ schedule'.failed =>
                (schedule'.is_incomplete <=> \E i \in 1..N : ~ FullySatisfied(i))]_vars

C8_Witness ==
    /\ at("sink")
    /\ schedule.failed
    /\ schedule.is_incomplete

\* C9: the saved schedules carry the versions 1, 2, ..., in the order of
\* their acceptance.
C9_VersionsCountAcceptances ==
    \A i \in 1..Len(saved_schedules) : saved_schedules[i].version = i

C9_Witness ==
    /\ Len(saved_schedules) >= 3
    /\ duplicates >= 1

\* C10: a failed build changes neither the saved list nor the duplicate
\* counter; a build that is not failed leaves exactly one saved schedule with
\* its grid: if the grid was saved before, the list is unchanged and the
\* counter grows by one, otherwise the build is appended and the counter is
\* unchanged.
C10_DedupLaw ==
    [][at("sink") =>
          LET g == schedule.table
              n == Len(saved_schedules)
          IN  IF schedule.failed
              THEN saved_schedules' = saved_schedules /\ duplicates' = duplicates
              ELSE /\ Cardinality({i \in 1..Len(saved_schedules') :
                                      saved_schedules'[i].table = g}) = 1
                   /\ IF g \in SavedGrids
                      THEN /\ saved_schedules' = saved_schedules
                           /\ duplicates' = duplicates + 1
                      ELSE /\ Len(saved_schedules') = n + 1
                           /\ SubSeq(saved_schedules', 1, n) = saved_schedules
                           /\ saved_schedules'[n + 1].table = g
                           /\ duplicates' = duplicates]_vars

C10_Witness ==
    /\ at("advance")
    /\ top.subj = 1
    /\ ~ schedule.failed
    /\ duplicates >= 2
    /\ Len(saved_schedules) >= 2
    /\ schedule.table \in SavedGrids
    /\ schedule.table # saved_schedules[Len(saved_schedules)].table

\* C11: a build that is not failed and leaves an AllBestEffort (VO) subject
\* with fewer allocated slots than it offers is flagged incomplete; and a
\* saved schedule that is not flagged incomplete holds every slot of every
\* VO subject, cell by cell.
C11_PartialAllBestEffortIsIncomplete ==
    /\ [][at("classify") /\ ~ schedule'.failed =>
             ((\E i \in 1..N :
                  /\ subjects[i].type = "VO"
                  /\ Cardinality(allocated_times[i]) < Len(subjects[i].times))
               => schedule'.is_incomplete)]_vars
    /\ [](\A v \in 1..Len(saved_schedules) :
             ~ saved_schedules[v].is_incomplete =>
                \A i \in 1..N : subjects[i].type = "VO" =>
                   \A k \in 1..Len(subjects[i].times) :
                      \A t \in slot_cells(subjects[i].times[k]) :
                         saved_schedules[v].table[t] = subjects[i].name)

C11_Witness ==
    /\ at("advance")
    /\ \E i \in 1..N : subjects[i].type = "VO" /\ Len(subjects[i].times) >= 2
    /\ \E v, w \in 1..Len(saved_schedules) :
          /\ saved_schedules[v].is_incomplete
          /\ ~ saved_schedules[w].is_incomplete

\* ---- the two-subject example (SpecExample) ----
PositionOf(name) == CHOOSE i \in 1..N : subjects[i].name = name

HoldsSlot(name, slot) ==
    \A t \in slot_cells(slot) : schedule.table[t] = name

HoldsNoCellOf(name, slot) ==
    \A t \in slot_cells(slot) : schedule.table[t] # name

PicksMonday == perm_check[PositionOf("A")] = <<TRUE, FALSE>>
PicksTuesday == perm_check[PositionOf("A")] = <<FALSE, TRUE>>

ExampleOutcome ==
    /\ ~ schedule.failed
    /\ PicksTuesday =>
          /\ HoldsSlot("B", ExampleB.times[1])
          /\ HoldsSlot("B", ExampleB.times[2])
          /\ ~ schedule.is_incomplete
    /\ PicksMonday =>
          /\ HoldsNoCellOf("B", ExampleB.times[1])
          /\ HoldsSlot("B", ExampleB.times[2])
          /\ schedule.is_incomplete

\* C12 as stated: in the example of A (UE, Monday and Tuesday) and B (VO,
\* Monday and Wednesday) every build where A picks Tuesday gives B both
\* slots and is not incomplete, every build where A picks Monday gives B
\* only its Wednesday slot and is incomplete, and no build is failed.
C12_ExampleOutcomes == at("sink") => ExampleOutcome

\* C12 amended: the outcomes of the example hold when A is loaded before B;
\* when B is loaded before A, the builds where A picks Monday and B's mask
\* has its Monday bit set are failed.
C12_ExampleOutcomesInLoadOrder ==
    at("sink") =>
        IF subjects[1].name = "A"
        THEN ExampleOutcome
        ELSE schedule.failed <=> (PicksMonday /\ perm_check[PositionOf("B")][1])

C12_Witness ==
    /\ at("sink")
    /\ subjects[1].name = "A"
    /\ PicksMonday
    /\ schedule.is_incomplete
    /\ HoldsSlot("A", ExampleA.times[1])
    /\ Len(saved_schedules) >= 2

\* C13: the build is a function of the subjects, the bitmasks and the blank
\* grid alone: every build of the search starts with every subject's
\* allocated_times empty and an all-empty grid, and its grid and its two
\* flags are those of the same bitmasks built from scratch, whatever builds
\* ran before it.
C13_BuildIsPure ==
    /\ at("phase1") =>
          /\ \A i \in 1..N : allocated_times[i] = {}
          /\ \A t \in DOMAIN blank_schedule : blank_schedule[t] = ""
          /\ schedule.table = blank_schedule
    /\ at("sink") =>
          /\ top.perm_check = perm_check
          /\ \A i \in 1..N : allocated_times[i] = {}
          /\ \A fresh \in {build(top.perm_check)} :
                /\ schedule.table = fresh.table
                /\ schedule.failed = fresh.failed
                /\ schedule.is_incomplete = fresh.is_incomplete

C13_Witness ==
    /\ at("sink")
    /\ ~ schedule.failed
    /\ schedule.is_incomplete
    /\ Len(saved_schedules) >= 2
    /\ Cardinality(permutations) >= 4

\* the slots of subject i whose bit is set in the current bitmask
FlaggedSlots(i) ==
    {subjects[i].times[k] :
        k \in {b \in 1..Len(subjects[i].times) : perm_check[i][b]}}

NoFlaggedOverlap(f, others) ==
    \A j \in others : \A g \in FlaggedSlots(j) : ~ Overlap(f, g)

AllocatedAndFreeOfVO(i, f) ==
    /\ f \in allocated_times[i]
    /\ \A t \in slot_cells(f) : \A j \in 1..N :
          subjects[j].type = "VO" => schedule.table[t] # subjects[j].name

\* C14 as stated: when the second phase has ended, the flagged slot of a UE
\* subject that overlaps no flagged slot of another UE subject is allocated
\* to it and none of its cells is held by a VO subject.
C14_ExclusiveOneHasStrictPriority ==
    at("classify") =>
        \A i \in 1..N : subjects[i].type = "UE" =>
            \A f \in FlaggedSlots(i) :
                NoFlaggedOverlap(f, {j \in 1..N : j # i /\ subjects[j].type = "UE"})
                    => AllocatedAndFreeOfVO(i, f)

\* C14 amended: when the second phase has ended, the flagged slot of a UE
\* subject that overlaps no flagged slot of another UE subject and no
\* flagged slot of a VO subject that comes before it in the subject order is
\* allocated to it and none of its cells is held by a VO subject.
C14_ExclusiveOneHasPriorityOverLaterAndUnflagged ==
    at("classify") =>
        \A i \in 1..N : subjects[i].type = "UE" =>
            \A f \in FlaggedSlots(i) :
                /\ NoFlaggedOverlap(f, {j \in 1..N : j # i /\ subjects[j].type = "UE"})
                /\ NoFlaggedOverlap(f, {j \in 1..(i - 1) : subjects[j].type = "VO"})
                => AllocatedAndFreeOfVO(i, f)

C14_Witness ==
    /\ at("classify")
    /\ \E i, j, l \in 1..N :
          /\ j < i /\ i < l
          /\ subjects[i].type = "UE"
          /\ subjects[j].type = "VO" /\ subjects[l].type = "VO"
          /\ \E f \in FlaggedSlots(i) :
                /\ AllocatedAndFreeOfVO(i, f)
                /\ \E g \in Range(subjects[j].times) \ FlaggedSlots(j) :
                      Overlap(f, g) /\ g \notin allocated_times[j]
                /\ \E g \in FlaggedSlots(l) :
                      Overlap(f, g) /\ g \notin allocated_times[l]

\* C15: within one build no written cell is overwritten or cleared: every
\* slot allocated by the first phase has all its cells under its subject's
\* name when that phase ends, and the second phase changes no cell that
\* holds a name and takes no allocated slot away, so these slots and cells
\* are the same when the second phase ends.
C15_WrittenCellsAreKept ==
    /\ [][at("phase1") =>
             \A i \in 1..N : \A a \in allocated_times'[i] :
                \A t \in slot_cells(a) : schedule'.table[t] = subjects[i].name]_vars
    /\ [][at("phase2") =>
             /\ \A t \in DOMAIN schedule.table :
                   schedule.table[t] # "" => schedule'.table[t] = schedule.table[t]
             /\ \A i \in 1..N :
                   /\ allocated_times[i] \subseteq allocated_times'[i]
                   /\ \A a \in allocated_times[i] : \A t \in slot_cells(a) :
                         schedule'.table[t] = subjects[i].name]_vars

C15_Witness ==
    /\ at("classify")
    /\ \E i, j \in 1..N :
          /\ i # j
          /\ allocated_times[i] \cap FlaggedSlots(i) # {}
          /\ allocated_times[j] \ FlaggedSlots(j) # {}
          /\ \E g \in Range(subjects[j].times) \ allocated_times[j] :
                \E a \in allocated_times[i] : Overlap(a, g)

\* C16: when the second phase has ended a UE subject holds at most one
\* slot, and only the slot flagged in its bitmask; the second phase
\* allocates nothing to a UE subject; and a build in which a UE subject
\* holds no slot is failed.
C16_ExclusiveOneHoldsOnlyItsFlaggedSlot ==
    /\ [](at("classify") =>
             \A i \in 1..N : subjects[i].type = "UE" =>
                /\ Cardinality(allocated_times[i]) <= 1
                /\ allocated_times[i] \subseteq FlaggedSlots(i))
    /\ [][at("phase2") =>
             \A i \in 1..N : subjects[i].type = "UE" =>
                allocated_times'[i] = allocated_times[i]]_vars
    /\ [][at("classify") =>
             ((\E i \in 1..N : subjects[i].type = "UE" /\ allocated_times[i] = {})
                 => schedule'.failed)]_vars

C16_Witness ==
    /\ at("classify")
    /\ \E i, j, l \in 1..N :
          /\ subjects[i].type = "UE" /\ allocated_times[i] = {}
          /\ subjects[j].type = "UE" /\ allocated_times[j] # {}
          /\ subjects[l].type = "VO" /\ allocated_times[l] \ FlaggedSlots(l) # {}
          /\ \E g \in Range(subjects[i].times) \ FlaggedSlots(i) :
                is_free(schedule.table, g)

\* C17: when the second phase has ended, every slot of a VO subject that is
\* not allocated to it, flagged or not, has a cell that holds another
\* subject's name: no VO slot is left out while all its cells are empty.
C17_BestEffortFillIsMaximal ==
    at("classify") =>
        \A i \in 1..N : subjects[i].type = "VO" =>
            \A g \in Range(subjects[i].times) \ allocated_times[i] :
                /\ \E t \in slot_cells(g) :
                      schedule.table[t] \notin {"", subjects[i].name}
                /\ ~ is_free(schedule.table, g)

C17_Witness ==
    /\ at("classify")
    /\ \E i \in 1..N :
          /\ subjects[i].type = "VO"
          /\ Range(subjects[i].times) \ allocated_times[i] # {}
          /\ allocated_times[i] \ FlaggedSlots(i) # {}
          /\ \E g \in FlaggedSlots(i) : g \notin allocated_times[i]

\* C18: whenever a frame of percolate is about to advance a subject, or has
\* finished its loop and is about to return, every enumerator stands where
\* it stood when the frame computed its own perm_check: advance, the
\* recursive call and reverse together have restored the indices.
C18_LoopRestoresIndices ==
    at("advance") => perm_check = top.perm_check

\* C19: at most one enumerator has has_reached_end set; the flag is set only
\* while the call made right after the advance stands at its first check,
\* never when a frame is past that check and never when the top-level call
\* has returned; and the step taken from a state with the flag set clears
\* it.
C19_EndFlagIsClearedAtOnce ==
    /\ [](/\ Cardinality(end_reached) <= 1
          /\ end_reached # {} => at("enter")
          /\ stack = << >> => end_reached = {})
    /\ [][end_reached # {} => end_reached' = {}]_vars

C19_Witness ==
    /\ at("enter")
    /\ end_reached # {}
    /\ first_of(end_reached) >= 2
    /\ Len(stack) >= 4
    /\ Cardinality(permutations) >= 6

\* the builds abandoned as failed so far (the message of line 293), counted
\* from the memo: the visited signatures whose build is failed
FailedBuilds == Cardinality({sig \in permutations : build(sig).failed})

OutcomesSoFar == Len(saved_schedules) + duplicates + FailedBuilds

BuildInProgress ==
    stack # << >> /\ top.pc \in {"phase1", "phase2", "classify", "sink"}

\* C20: at every point of the search at which no build is on its way from
\* the memo to the sink, the saved schedules, the duplicates and the failed
\* builds together are as many as the signatures in the memo; when the
\* search has finished they are as many as the product of the subjects'
\* choice counts.
C20_OutcomesAreConserved ==
    /\ ~ BuildInProgress => OutcomesSoFar = Cardinality(permutations)
    /\ main_pc = "done" => OutcomesSoFar = choice_product(N)

\* ---- inputs without conflicts (SpecDisjoint) ----
NoOverlapAcrossSubjects ==
    \A i, j \in 1..N : i # j =>
        \A a \in Range(subjects[i].times), b \in Range(subjects[j].times) :
            ~ Overlap(a, b)

\* the placement the UE choices alone decide: every slot of every VO
\* subject and the flagged slot of every UE subject
PlacedSlots(i) ==
    IF subjects[i].type = "VO" THEN Range(subjects[i].times) ELSE FlaggedSlots(i)

RECURSIVE ue_product(_)
ue_product(i) ==
    IF i = 0 THEN 1
    ELSE (IF subjects[i].type = "UE" THEN Len(subjects[i].times) ELSE 1)
            * ue_product(i - 1)

\* C21: when no slot of a subject overlaps a slot of another subject, no
\* build is failed or incomplete, the grid of every build holds every slot
\* of every VO subject and the flagged slot of every UE subject and nothing
\* else, and when the search has finished the saved schedules are as many as
\* the product of the UE subjects' slot counts and every other visited
\* combination was counted as a duplicate.
C21_DisjointInputs ==
    NoOverlapAcrossSubjects =>
        /\ at("sink") =>
              /\ ~ schedule.failed
              /\ ~ schedule.is_incomplete
              /\ \A t \in DOMAIN schedule.table :
                    /\ \A i \in 1..N :
                          schedule.table[t] = subjects[i].name
                             <=> \E a \in PlacedSlots(i) : Inside(t, a)
                    /\ schedule.table[t] = "" \/
                          \E i \in 1..N : schedule.table[t] = subjects[i].name
        /\ main_pc = "done" =>
              /\ Len(saved_schedules) = ue_product(N)
              /\ duplicates = Cardinality(permutations) - Len(saved_schedules)
====
